---- MODULE Spec2Model ----
(***************************************************************************)
(* A model of torchdistill's dataset registry, forward-process-function    *)
(* registry and dataset wrappers (BaseDatasetWrapper, CacheableDataset,    *)
(* CRDDatasetWrapper, SSKDDatasetWrapper).                                 *)
(*                                                                         *)
(* Python values are records tagged with their type in field t, so that    *)
(* None, strings, callables and closures can be compared with each other.  *)
(* Strings that are taken apart (file paths) are sequences of characters.  *)
(***************************************************************************)
EXTENDS Integers, Sequences, FiniteSets, TLC

VARIABLES
    DATASET_DICT,      \* datasets/registry.py: key -> class or function
    PROC_FUNC_DICT,    \* core/registry.py: key -> forward process function
    pending,           \* a decorator returned by a keyed registration, or None
    org_dataset,       \* the wrapped dataset: samples, targets, classes, transform
    crd,               \* the CRDDatasetWrapper's fields
    cache,             \* the CacheableDataset's fields
    files,             \* the file system: paths that exist -> their content
    heap,              \* the dict objects allocated by __getitem__ calls
    sskd,              \* the SSKDDatasetWrapper objects constructed so far
    lastCall           \* the last call made: op, args, ret, exc

vars == <<DATASET_DICT, PROC_FUNC_DICT, pending, org_dataset, crd, cache,
          files, heap, sskd, lastCall>>

-----------------------------------------------------------------------------
(* Python values *)

None == [t |-> "NoneType"]

Str(s) == [t |-> "str", v |-> s]

\* a class or a function: an object with identity and a __name__
Obj(i, n) == [t |-> "callable", id |-> i, name |-> n]

\* the inner function a keyed registration returns, with the kwargs it captured
Closure(fn, kwargs) == [t |-> "closure", name |-> fn, kwargs |-> kwargs]

callable(x) == x.t \in {"callable", "closure"}

NameOf(f) == Str(f.name)

NoKwargs == << >>

KwargsGet(kwargs, k) == IF k \in DOMAIN kwargs THEN kwargs[k] ELSE None

\* d[k] = v on a dict
DictSet(d, k, v) == [x \in DOMAIN d \cup {k} |-> IF x = k THEN v ELSE d[x]]

NoExc == ""

NoCall == [op |-> "", args |-> << >>, ret |-> None, exc |-> NoExc]

-----------------------------------------------------------------------------
(* datasets/registry.py *)

\* the third-party catalog DATASET_DICT starts with
TorchvisionCatalog == (Str("CIFAR10") :> Obj(0, "CIFAR10"))

\* the classes and functions a program registers
DatasetObjs == {Obj(1, "DsA"), Obj(2, "DsA"), Obj(3, "CIFAR10")}

\* what a caller passes as the first positional argument
DatasetArgs == DatasetObjs \cup {None, Str("DsA")}

DatasetKwargs == {NoKwargs} \cup {[key |-> k] : k \in {None, Str("k"), Str("DsA")}}

\* a plausible slip: the key keyword is ignored
DatasetKeyNameOnly(kwargs, cls_or_func) == NameOf(cls_or_func)

DatasetKey(kwargs, cls_or_func) ==
    LET key == KwargsGet(kwargs, "key")
    IN  IF key = None THEN NameOf(cls_or_func) ELSE key

\* the inner function: DATASET_DICT[key] = cls_or_func; return cls_or_func
RegisterDatasetInner(kwargs, cls_or_func) ==
    DATASET_DICT' = DictSet(DATASET_DICT, DatasetKey(kwargs, cls_or_func), cls_or_func)

register_dataset(arg, kwargs) ==
    /\ IF callable(arg)
       THEN /\ RegisterDatasetInner(kwargs, arg)
            /\ pending' = pending
            /\ lastCall' = [op |-> "register_dataset", args |-> <<arg, kwargs>>,
                            ret |-> arg, exc |-> NoExc]
       ELSE /\ DATASET_DICT' = DATASET_DICT
            /\ pending' = Closure("_register_dataset", kwargs)
            /\ lastCall' = [op |-> "register_dataset", args |-> <<arg, kwargs>>,
                            ret |-> Closure("_register_dataset", kwargs), exc |-> NoExc]
    /\ UNCHANGED <<PROC_FUNC_DICT, org_dataset, crd, cache, files, heap, sskd>>

\* applying a decorator obtained earlier: register_dataset(key=k)(obj)
apply_register_dataset(cls_or_func) ==
    /\ pending # None
    /\ pending.name = "_register_dataset"
    /\ RegisterDatasetInner(pending.kwargs, cls_or_func)
    /\ lastCall' = [op |-> "_register_dataset", args |-> <<cls_or_func, pending.kwargs>>,
                    ret |-> cls_or_func, exc |-> NoExc]
    /\ UNCHANGED <<PROC_FUNC_DICT, pending, org_dataset, crd, cache, files, heap, sskd>>

-----------------------------------------------------------------------------
(* core/registry.py *)

ProcFuncs == {Obj(1, "forward_batch_only"), Obj(2, "forward_batch_only"),
              Obj(3, "forward_all")}

ProcArgs == ProcFuncs \cup {None}

ProcKwargs == {NoKwargs} \cup
              {[key |-> k] : k \in {None, Str("custom"), Str("forward_batch_only")}}

\* names a caller may look up
ProcNames == {None, Str("forward_batch_only"), Str("forward_all"), Str("custom"),
              Str("missing")}

ProcFuncKey(kwargs, func) ==
    LET key == KwargsGet(kwargs, "key")
    IN  IF key = None THEN NameOf(func) ELSE key

RegisterForwardProcFuncInner(kwargs, func) ==
    PROC_FUNC_DICT' = DictSet(PROC_FUNC_DICT, ProcFuncKey(kwargs, func), func)

register_forward_proc_func(arg, kwargs) ==
    /\ IF callable(arg)
       THEN /\ RegisterForwardProcFuncInner(kwargs, arg)
            /\ pending' = pending
            /\ lastCall' = [op |-> "register_forward_proc_func", args |-> <<arg, kwargs>>,
                            ret |-> arg, exc |-> NoExc]
       ELSE /\ PROC_FUNC_DICT' = PROC_FUNC_DICT
            /\ pending' = Closure("_register_forward_proc_func", kwargs)
            /\ lastCall' = [op |-> "register_forward_proc_func", args |-> <<arg, kwargs>>,
                            ret |-> Closure("_register_forward_proc_func", kwargs),
                            exc |-> NoExc]
    /\ UNCHANGED <<DATASET_DICT, org_dataset, crd, cache, files, heap, sskd>>

apply_register_forward_proc_func(func) ==
    /\ pending # None
    /\ pending.name = "_register_forward_proc_func"
    /\ RegisterForwardProcFuncInner(pending.kwargs, func)
    /\ lastCall' = [op |-> "_register_forward_proc_func", args |-> <<func, pending.kwargs>>,
                    ret |-> func, exc |-> NoExc]
    /\ UNCHANGED <<DATASET_DICT, pending, org_dataset, crd, cache, files, heap, sskd>>

\* a plausible slip: an unregistered name falls back to the default function
GetForwardProcFuncFallback(d, func_name) ==
    IF func_name # None /\ func_name \in DOMAIN d
    THEN [ret |-> d[func_name], exc |-> NoExc]
    ELSE IF Str("forward_batch_only") \in DOMAIN d
         THEN [ret |-> d[Str("forward_batch_only")], exc |-> NoExc]
         ELSE [ret |-> None, exc |-> "KeyError"]

\* the outcome of get_forward_proc_func(func_name) on the registry d
GetForwardProcFunc(d, func_name) ==
    IF func_name = None
    THEN IF Str("forward_batch_only") \in DOMAIN d
         THEN [ret |-> d[Str("forward_batch_only")], exc |-> NoExc]
         ELSE [ret |-> None, exc |-> "KeyError"]
    ELSE IF func_name \in DOMAIN d
         THEN [ret |-> d[func_name], exc |-> NoExc]
         ELSE [ret |-> None, exc |-> "ValueError"]

get_forward_proc_func(func_name) ==
    LET r == GetForwardProcFunc(PROC_FUNC_DICT, func_name)
    IN  /\ lastCall' = [op |-> "get_forward_proc_func", args |-> <<func_name>>,
                        ret |-> r.ret, exc |-> r.exc]
        /\ UNCHANGED <<DATASET_DICT, PROC_FUNC_DICT, pending, org_dataset, crd, cache,
                       files, heap, sskd>>

-----------------------------------------------------------------------------
(* the wrapped dataset, as the wrappers use it *)

\* a sample as the dataset stores it: an image, not yet rotated
Image(i) == [t |-> "image", id |-> i, rot |-> 0]

\* transform(sample)
ApplyTransform(f, x) == [t |-> "transformed", by |-> f, of |-> x]

\* org_dataset.__getitem__(index): the stored sample, transformed by the
\* dataset's own transform when it has one, and the sample's target
OrgGetItem(ds, index) ==
    [sample |-> IF ds.transform = None THEN ds.samples[index + 1]
                ELSE ApplyTransform(ds.transform, ds.samples[index + 1]),
     target |-> ds.targets[index + 1]]

\* len(org_dataset)
OrgLen(ds) == Len(ds.samples)

Range(s) == {s[i] : i \in DOMAIN s}

Injections(m, n) == {f \in [1..m -> 1..n] : \A i, j \in 1..m : i # j => f[i] # f[j]}

-----------------------------------------------------------------------------
(* datasets/wrapper.py: BaseDatasetWrapper *)

EmptyDict == << >>

DictRef(i) == [t |-> "dict", id |-> i]

\* a plausible slip: one dict object shared by every call (a default argument)
BaseGetItemSharedDict(ds, h, index) ==
    LET item == OrgGetItem(ds, index)
    IN  [sample |-> item.sample, target |-> item.target, supp_dict |-> DictRef(1),
         heap |-> IF h = << >> THEN <<EmptyDict>> ELSE h]

\* BaseDatasetWrapper.__getitem__ on the heap h of live dicts: the dataset's
\* sample and target and a newly allocated empty dict
BaseGetItem(ds, h, index) ==
    LET item == OrgGetItem(ds, index)
    IN  [sample |-> item.sample, target |-> item.target,
         supp_dict |-> DictRef(Len(h) + 1), heap |-> Append(h, EmptyDict)]

\* BaseDatasetWrapper.__len__
BaseLen(ds) == OrgLen(ds)

\* the results of earlier calls a caller holds on to
MaxLiveDicts == 2

\* the dicts the caller still holds when it makes a call
LiveDicts(keep) == IF keep THEN heap ELSE << >>

\* supp_dict[k] = v on the heap
HeapSet(h, ref, k, v) == [h EXCEPT ![ref.id] = DictSet(@, k, v)]

-----------------------------------------------------------------------------
(* datasets/wrapper.py: CRDDatasetWrapper *)

\* for i in range(num_samples): cls_positives[labels[i]].append(i)
RECURSIVE BuildPositives(_, _, _)
BuildPositives(pos, labels, i) ==
    IF i >= Len(labels) THEN pos
    ELSE BuildPositives([pos EXCEPT ![labels[i + 1] + 1] = Append(@, i)], labels, i + 1)

\* a plausible slip: the class's own samples are not skipped
RECURSIVE ExtendNegativesNoSkip(_, _, _, _)
ExtendNegativesNoSkip(neg, pos, i, j) ==
    IF j >= Len(pos) THEN neg
    ELSE ExtendNegativesNoSkip(neg \o pos[j + 1], pos, i, j + 1)

\* for j in range(num_classes): if j == i: continue; cls_negatives[i].extend(cls_positives[j])
RECURSIVE ExtendNegatives(_, _, _, _)
ExtendNegatives(neg, pos, i, j) ==
    IF j >= Len(pos) THEN neg
    ELSE ExtendNegatives(IF j = i THEN neg ELSE neg \o pos[j + 1], pos, i, j + 1)

BuildNegatives(pos) == [c \in 1..Len(pos) |-> ExtendNegatives(<< >>, pos, c - 1, 0)]

\* a ratio is a fraction <<numerator, denominator>> with a positive denominator
RatioInUnitInterval(ratio) == 0 < ratio[1] /\ ratio[1] < ratio[2]

\* int(length * ratio) for a ratio in (0, 1)
IntTimes(length, ratio) == (length * ratio[1]) \div ratio[2]

\* the outcomes of np.random.permutation(a)[0:n]
PermutationPrefixes(a, n) ==
    LET m == IF n < Len(a) THEN n ELSE Len(a)
    IN  {[i \in 1..m |-> a[f[i]]] : f \in Injections(m, Len(a))}

\* the outcomes of [np.random.permutation(cls_negatives[i])[0:n] for i in range(c)]
RECURSIVE PermuteAll(_, _, _)
PermuteAll(neg, n, c) ==
    IF c = 0 THEN {<< >>}
    ELSE {Append(p, q) : p \in PermuteAll(neg, n, c - 1), q \in PermutationPrefixes(neg[c], n)}

\* the outcomes of np.random.choice(a, size, replace=replace); none when it raises
\* ValueError: a is empty and samples are taken, or more are taken without
\* replacement than a holds
RandomChoice(a, size, replace) ==
    IF Len(a) = 0 /\ size # 0 THEN {}
    ELSE IF replace THEN [1..size -> Range(a)]
    ELSE {[i \in 1..size |-> a[f[i]]] : f \in Injections(size, Len(a))}

\* a plausible slip: always sample with replacement
ReplaceAlways(num_negative_samples, negatives) == TRUE

\* replace = True if self.num_negative_samples > len(self.cls_negatives[target]) else False
Replace(num_negative_samples, negatives) == num_negative_samples > Len(negatives)

\* a plausible slip: the positive index is left out
ContrastIdxNegativesOnly(pos_idx, neg_idx) == neg_idx

\* np.hstack((np.asarray([pos_idx]), neg_idx))
ContrastIdx(pos_idx, neg_idx) == <<pos_idx>> \o neg_idx

\* a plausible slip: 'relax' draws the positive from the negatives
PosIdxChoicesFromNegatives(w, index, target) ==
    IF w.mode = "exact" THEN {index}
    ELSE IF w.mode = "relax" THEN Range(w.cls_negatives[target + 1]) \cup {index}
    ELSE {}

\* the values pos_idx may take; none when the mode is not implemented
PosIdxChoices(w, index, target) ==
    IF w.mode = "exact" THEN {index}
    ELSE IF w.mode = "relax"
         THEN {c[1] : c \in RandomChoice(w.cls_positives[target + 1], 1, TRUE)}
    ELSE {}

CRDInit(num_negative_samples, mode, ratio) ==
    /\ crd = None
    /\ LET num_classes == org_dataset.classes
           labels == org_dataset.targets
           cls_positives == BuildPositives([c \in 1..num_classes |-> << >>], labels, 0)
           cls_negatives == BuildNegatives(cls_positives)
           args == <<num_negative_samples, mode, ratio>>
       IN  IF RatioInUnitInterval(ratio)
           THEN IF num_classes = 0
                THEN \* len(self.cls_negatives[0]) on an empty list
                     /\ crd' = crd
                     /\ lastCall' = [op |-> "CRDDatasetWrapper", args |-> args,
                                     ret |-> None, exc |-> "IndexError"]
                ELSE \E permuted \in PermuteAll(cls_negatives,
                                                IntTimes(Len(cls_negatives[1]), ratio),
                                                num_classes) :
                     /\ crd' = [num_negative_samples |-> num_negative_samples,
                                mode |-> mode, ratio |-> ratio,
                                cls_positives |-> cls_positives,
                                cls_negatives |-> permuted]
                     /\ lastCall' = [op |-> "CRDDatasetWrapper", args |-> args,
                                     ret |-> None, exc |-> NoExc]
           ELSE /\ crd' = [num_negative_samples |-> num_negative_samples,
                           mode |-> mode, ratio |-> ratio,
                           cls_positives |-> cls_positives,
                           cls_negatives |-> cls_negatives]
                /\ lastCall' = [op |-> "CRDDatasetWrapper", args |-> args,
                                ret |-> None, exc |-> NoExc]
    /\ UNCHANGED <<DATASET_DICT, PROC_FUNC_DICT, pending, org_dataset, cache, files,
                   heap, sskd>>

CRDGetItem(index, keep) ==
    /\ crd # None
    /\ index \in 0..(OrgLen(org_dataset) - 1)
    /\ Len(LiveDicts(keep)) < MaxLiveDicts
    /\ LET h == LiveDicts(keep)
           base == BaseGetItem(org_dataset, h, index)
           positives == PosIdxChoices(crd, index, base.target)
           negatives == crd.cls_negatives[base.target + 1]
           replace == Replace(crd.num_negative_samples, negatives)
           choices == RandomChoice(negatives, crd.num_negative_samples, replace)
       IN  IF crd.mode \notin {"exact", "relax"}
           THEN /\ heap' = h
                /\ lastCall' = [op |-> "CRDDatasetWrapper.__getitem__", args |-> <<index>>,
                                ret |-> None, exc |-> "NotImplementedError"]
           ELSE IF positives = {} \/ choices = {}
           THEN /\ heap' = h
                /\ lastCall' = [op |-> "CRDDatasetWrapper.__getitem__", args |-> <<index>>,
                                ret |-> None, exc |-> "ValueError"]
           ELSE \E pos_idx \in positives, neg_idx \in choices :
                /\ heap' = HeapSet(HeapSet(base.heap, base.supp_dict, "pos_idx", index),
                                   base.supp_dict, "contrast_idx",
                                   ContrastIdx(pos_idx, neg_idx))
                /\ lastCall' = [op |-> "CRDDatasetWrapper.__getitem__", args |-> <<index>>,
                                ret |-> <<base.sample, base.target, base.supp_dict>>,
                                exc |-> NoExc]
    /\ UNCHANGED <<DATASET_DICT, PROC_FUNC_DICT, pending, org_dataset, crd, cache, files,
                   sskd>>

-----------------------------------------------------------------------------
(* datasets/wrapper.py: default_idx2subpath and CacheableDataset *)

Digits == <<"0", "1", "2", "3", "4", "5", "6", "7", "8", "9">>

\* str(index) for an index >= 0: its decimal digits
RECURSIVE StrOfInt(_)
StrOfInt(n) ==
    IF n < 10 THEN <<Digits[n + 1]>>
    ELSE StrOfInt(n \div 10) \o <<Digits[(n % 10) + 1]>>

\* '{:04d}'.format(index) for an index >= 0: the digits, zero-padded to four
RECURSIVE ZeroPad(_, _)
ZeroPad(digits, width) ==
    IF Len(digits) >= width THEN digits ELSE ZeroPad(<<"0">> \o digits, width)

\* s[-n:]
LastChars(s, n) == IF Len(s) <= n THEN s ELSE SubSeq(s, Len(s) - n + 1, Len(s))

\* os.path.join(a, b) on POSIX paths
PathJoin(a, b) ==
    IF Len(b) > 0 /\ b[1] = "/" THEN b
    ELSE IF Len(a) = 0 \/ a[Len(a)] = "/" THEN a \o b
    ELSE a \o <<"/">> \o b

default_idx2subpath(index) ==
    LET digits_str == ZeroPad(StrOfInt(index), 4)
    IN  PathJoin(LastChars(digits_str, 4), digits_str)

\* calling the function stored in self.idx2subath_func
CallIdx2Subpath(func, index) ==
    IF func = "str" THEN StrOfInt(index) ELSE default_idx2subpath(index)

\* an argument the caller leaves out
Omitted == [t |-> "omitted"]

DefaultExt == <<".", "p", "t">>

\* file_util.check_if_exists(file_path) on the file system fs
CheckIfExists(fs, file_path) == file_path \in DOMAIN fs

\* torch.load(file_path)
TorchLoad(fs, file_path) == fs[file_path]

\* a plausible slip: the extension is left out of the path
CacheFilePathNoExt(w, index) ==
    PathJoin(w.cache_dir_path, CallIdx2Subpath(w.idx2subath_func, index))

\* os.path.join(self.cache_dir_path, self.idx2subath_func(index) + self.ext)
CacheFilePath(w, index) ==
    PathJoin(w.cache_dir_path, CallIdx2Subpath(w.idx2subath_func, index) \o w.ext)

CacheableInit(cache_dir_path, idx2subpath_func, ext) ==
    /\ cache = None
    /\ cache' = [cache_dir_path |-> cache_dir_path,
                 idx2subath_func |-> IF idx2subpath_func = None THEN "str"
                                     ELSE idx2subpath_func.name,
                 ext |-> IF ext = Omitted THEN DefaultExt ELSE ext]
    /\ lastCall' = [op |-> "CacheableDataset",
                    args |-> <<cache_dir_path, idx2subpath_func, ext>>,
                    ret |-> None, exc |-> NoExc]
    /\ UNCHANGED <<DATASET_DICT, PROC_FUNC_DICT, pending, org_dataset, crd, files, heap,
                   sskd>>

CacheableGetItem(index, keep) ==
    /\ Len(LiveDicts(keep)) < MaxLiveDicts
    /\ cache # None
    /\ index \in 0..(OrgLen(org_dataset) - 1)
    /\ LET base == BaseGetItem(org_dataset, LiveDicts(keep), index)
           cache_file_path == CacheFilePath(cache, index)
           loaded == IF CheckIfExists(files, cache_file_path)
                     THEN HeapSet(base.heap, base.supp_dict, "cached_data",
                                  TorchLoad(files, cache_file_path))
                     ELSE base.heap
       IN  /\ heap' = HeapSet(loaded, base.supp_dict, "cache_file_path", cache_file_path)
           /\ lastCall' = [op |-> "CacheableDataset.__getitem__", args |-> <<index, keep>>,
                           ret |-> <<base.sample, base.target, base.supp_dict>>,
                           exc |-> NoExc]
    /\ UNCHANGED <<DATASET_DICT, PROC_FUNC_DICT, pending, org_dataset, crd, cache, files,
                   sskd>>

\* BaseDatasetWrapper.__getitem__ called on a plain BaseDatasetWrapper
BaseDatasetWrapperGetItem(index, keep) ==
    /\ Len(LiveDicts(keep)) < MaxLiveDicts
    /\ index \in 0..(OrgLen(org_dataset) - 1)
    /\ LET base == BaseGetItem(org_dataset, LiveDicts(keep), index)
       IN  /\ heap' = base.heap
           /\ lastCall' = [op |-> "BaseDatasetWrapper.__getitem__",
                           args |-> <<index, keep>>,
                           ret |-> <<base.sample, base.target, base.supp_dict>>,
                           exc |-> NoExc]
    /\ UNCHANGED <<DATASET_DICT, PROC_FUNC_DICT, pending, org_dataset, crd, cache, files,
                   sskd>>

\* len(wrapper) for a wrapper class that inherits __len__
WrapperLen(class) ==
    /\ class = "CacheableDataset" => cache # None
    /\ lastCall' = [op |-> "__len__", args |-> <<class>>, ret |-> BaseLen(org_dataset),
                    exc |-> NoExc]
    /\ UNCHANGED <<DATASET_DICT, PROC_FUNC_DICT, pending, org_dataset, crd, cache, files,
                   heap, sskd>>

\* what the training code saves for a sample
CachedOutput(index) == [t |-> "tensor", of |-> index]

\* the environment: torch.save(output, cache_file_path) for a sample
SaveCacheFile(index) ==
    /\ cache # None
    /\ files' = DictSet(files, CacheFilePath(cache, index), CachedOutput(index))
    /\ lastCall' = [op |-> "torch.save", args |-> <<index>>, ret |-> None, exc |-> NoExc]
    /\ UNCHANGED <<DATASET_DICT, PROC_FUNC_DICT, pending, org_dataset, crd, cache, heap,
                   sskd>>

\* the environment: a cache file is removed
RemoveCacheFile(file_path) ==
    /\ file_path \in DOMAIN files
    /\ files' = [x \in DOMAIN files \ {file_path} |-> files[x]]
    /\ lastCall' = [op |-> "os.remove", args |-> <<file_path>>, ret |-> None,
                    exc |-> NoExc]
    /\ UNCHANGED <<DATASET_DICT, PROC_FUNC_DICT, pending, org_dataset, crd, cache, heap,
                   sskd>>

-----------------------------------------------------------------------------
(* datasets/wrapper.py: SSKDDatasetWrapper *)

\* the wrappers constructed over the one dataset
MaxWrappers == 3

\* sample.rotate(angle, expand=True) on an image
Rotate(x, angle) == [x EXCEPT !.rot = (@ + angle) % 360]

\* a plausible slip: the dataset keeps its transform
OrgAfterSSKDInitKeepsTransform(ds) == ds

\* org_dataset.transform = None
OrgAfterSSKDInit(ds) == [ds EXCEPT !.transform = None]

\* self.transform = org_dataset.transform
SSKDFields(ds) == [transform |-> ds.transform]

\* torch.stack of the transformed rotations of the sample
SSKDStack(transform, sample) ==
    [t |-> "stack",
     of |-> <<ApplyTransform(transform, sample),
              ApplyTransform(transform, Rotate(sample, 90)),
              ApplyTransform(transform, Rotate(sample, 180)),
              ApplyTransform(transform, Rotate(sample, 270))>>]

SSKDInit ==
    /\ Len(sskd) < MaxWrappers
    /\ sskd' = Append(sskd, SSKDFields(org_dataset))
    /\ org_dataset' = OrgAfterSSKDInit(org_dataset)
    /\ lastCall' = [op |-> "SSKDDatasetWrapper", args |-> << >>, ret |-> Len(sskd) + 1,
                    exc |-> NoExc]
    /\ UNCHANGED <<DATASET_DICT, PROC_FUNC_DICT, pending, crd, cache, files, heap>>

SSKDGetItem(w, index, keep) ==
    /\ Len(LiveDicts(keep)) < MaxLiveDicts
    /\ w \in 1..Len(sskd)
    /\ index \in 0..(OrgLen(org_dataset) - 1)
    /\ LET h == LiveDicts(keep)
           base == BaseGetItem(org_dataset, h, index)
       IN  IF sskd[w].transform = None
           THEN \* calling None
                /\ heap' = h
                /\ lastCall' = [op |-> "SSKDDatasetWrapper.__getitem__",
                                args |-> <<w, index>>, ret |-> None, exc |-> "TypeError"]
           ELSE /\ heap' = base.heap
                /\ lastCall' = [op |-> "SSKDDatasetWrapper.__getitem__",
                                args |-> <<w, index>>,
                                ret |-> <<SSKDStack(sskd[w].transform, base.sample),
                                          base.target, base.supp_dict>>,
                                exc |-> NoExc]
    /\ UNCHANGED <<DATASET_DICT, PROC_FUNC_DICT, pending, org_dataset, crd, cache, files,
                   sskd>>

\* org_dataset[index], called on the wrapped dataset itself
OrgDatasetGetItem(index) ==
    /\ index \in 0..(OrgLen(org_dataset) - 1)
    /\ LET item == OrgGetItem(org_dataset, index)
       IN  lastCall' = [op |-> "org_dataset.__getitem__", args |-> <<index>>,
                        ret |-> <<item.sample, item.target>>, exc |-> NoExc]
    /\ UNCHANGED <<DATASET_DICT, PROC_FUNC_DICT, pending, org_dataset, crd, cache, files,
                   heap, sskd>>

-----------------------------------------------------------------------------
(* the state the registries do not use *)

NoDataset == [samples |-> << >>, targets |-> << >>, classes |-> 0, transform |-> None]

InitRegistry ==
    /\ DATASET_DICT = TorchvisionCatalog
    /\ PROC_FUNC_DICT = << >>
    /\ pending = None
    /\ org_dataset = NoDataset
    /\ crd = None
    /\ cache = None
    /\ files = << >>
    /\ heap = << >>
    /\ sskd = << >>
    /\ lastCall = NoCall

Init == InitRegistry

Next ==
    \/ \E arg \in DatasetArgs, kwargs \in DatasetKwargs : register_dataset(arg, kwargs)
    \/ \E obj \in DatasetObjs : apply_register_dataset(obj)

Spec == Init /\ [][Next]_vars

NextProc ==
    \/ \E arg \in ProcArgs, kwargs \in ProcKwargs : register_forward_proc_func(arg, kwargs)
    \/ \E func \in ProcFuncs : apply_register_forward_proc_func(func)
    \/ \E name \in ProcNames : get_forward_proc_func(name)

SpecProc == InitRegistry /\ [][NextProc]_vars

-----------------------------------------------------------------------------
(* the CRD wrapper over a small labelled dataset *)

MaxSamples == 3

MaxClasses == 2

MaxNegativeSamples == 2

Modes == {"exact", "relax", "strict"}

\* 0, 1/2 and 1: all exact as floating-point numbers
Ratios == {<<0, 1>>, <<1, 2>>, <<1, 1>>}

\* datasets of n samples and k >= 1 classes whose labels lie in 0..k-1
LabelledDatasets ==
    {[samples |-> [i \in 1..n |-> Image(i - 1)], targets |-> labels, classes |-> k,
      transform |-> None] :
        <<n, k, labels>> \in
            {<<n, k, labels>> \in
                (0..MaxSamples) \X (1..MaxClasses) \X
                    UNION {[1..n -> 0..(MaxClasses - 1)] : n \in 0..MaxSamples} :
                /\ Len(labels) = n
                /\ \A i \in 1..n : labels[i] < k}}

InitCRD ==
    /\ DATASET_DICT = TorchvisionCatalog
    /\ PROC_FUNC_DICT = << >>
    /\ pending = None
    /\ org_dataset \in LabelledDatasets
    /\ crd = None
    /\ cache = None
    /\ files = << >>
    /\ heap = << >>
    /\ sskd = << >>
    /\ lastCall = NoCall

NextCRD ==
    \/ \E n \in 0..MaxNegativeSamples, mode \in Modes, ratio \in Ratios :
           CRDInit(n, mode, ratio)
    \/ \E index \in 0..(MaxSamples - 1) : CRDGetItem(index, FALSE)

SpecCRD == InitCRD /\ [][NextCRD]_vars

-----------------------------------------------------------------------------
(* the cacheable wrapper, and a plain base wrapper, over one dataset *)

CacheSamples == 11

\* the indices the callers ask for: one digit, and two
ProbeIndices == {0, 1, CacheSamples - 1}

CacheDirPaths == {<<"c">>, <<"c", "/">>, << >>}

Idx2SubpathFuncs == {None, Obj(1, "default_idx2subpath")}

Exts == {Omitted, <<".", "x">>}

CachedDataset ==
    [samples |-> [i \in 1..CacheSamples |-> Image(i - 1)],
     targets |-> [i \in 1..CacheSamples |-> (i - 1) % 2],
     classes |-> 2, transform |-> None]

InitCache ==
    /\ DATASET_DICT = TorchvisionCatalog
    /\ PROC_FUNC_DICT = << >>
    /\ pending = None
    /\ org_dataset = CachedDataset
    /\ crd = None
    /\ cache = None
    /\ files = << >>
    /\ heap = << >>
    /\ sskd = << >>
    /\ lastCall = NoCall

NextCache ==
    \/ \E dir \in CacheDirPaths, func \in Idx2SubpathFuncs, ext \in Exts :
           CacheableInit(dir, func, ext)
    \/ \E index \in ProbeIndices, keep \in BOOLEAN : CacheableGetItem(index, keep)
    \/ \E index \in ProbeIndices, keep \in BOOLEAN : BaseDatasetWrapperGetItem(index, keep)
    \/ \E class \in {"BaseDatasetWrapper", "CacheableDataset"} : WrapperLen(class)
    \/ \E index \in ProbeIndices : SaveCacheFile(index)
    \/ \E file_path \in DOMAIN files : RemoveCacheFile(file_path)

SpecCache == InitCache /\ [][NextCache]_vars

-----------------------------------------------------------------------------
(* SSKD wrappers over one dataset *)

MaxSSKDSamples == 2

Transforms == {None, Obj(1, "ToTensor"), Obj(2, "Normalize")}

InitSSKD ==
    /\ DATASET_DICT = TorchvisionCatalog
    /\ PROC_FUNC_DICT = << >>
    /\ pending = None
    /\ org_dataset \in
           {[samples |-> [i \in 1..n |-> Image(i - 1)], targets |-> [i \in 1..n |-> 0],
             classes |-> 1, transform |-> f] : n \in 1..MaxSSKDSamples, f \in Transforms}
    /\ crd = None
    /\ cache = None
    /\ files = << >>
    /\ heap = << >>
    /\ sskd = << >>
    /\ lastCall = NoCall

NextSSKD ==
    \/ SSKDInit
    \/ \E w \in 1..MaxWrappers, index \in 0..(MaxSSKDSamples - 1) :
           SSKDGetItem(w, index, FALSE)
    \/ \E index \in 0..(MaxSSKDSamples - 1) : OrgDatasetGetItem(index)

SpecSSKD == InitSSKD /\ [][NextSSKD]_vars

-----------------------------------------------------------------------------
(* properties of the registries *)

IsDatasetRegistration(call) ==
    /\ call.op \in {"register_dataset", "_register_dataset"}
    /\ callable(call.args[1])

\* C1: a registration of obj, bare or through a keyed decorator, stores obj under
\* the key keyword when it is given and not None and otherwise under
\* obj.__name__, leaves every entry under another key as it was, and returns obj;
\* so DATASET_DICT[k] is always the object most recently registered under k.
C1_RegisterDataset ==
    [][IsDatasetRegistration(lastCall') =>
        LET obj == lastCall'.args[1]
            kwargs == lastCall'.args[2]
            k == IF "key" \in DOMAIN kwargs /\ kwargs.key # None
                 THEN kwargs.key ELSE Str(obj.name)
        IN  /\ DOMAIN DATASET_DICT' = DOMAIN DATASET_DICT \cup {k}
            /\ DATASET_DICT'[k] = obj
            /\ \A x \in DOMAIN DATASET_DICT \ {k} : DATASET_DICT'[x] = DATASET_DICT[x]
            /\ lastCall'.ret = obj]_vars

\* a keyed decorator has just stored an object under a key that is not its name,
\* while the catalog entry and a name-keyed entry hold what was registered there
C1_Witness ==
    /\ lastCall.op = "_register_dataset"
    /\ lastCall.args = <<Obj(2, "DsA"), [key |-> Str("k")]>>
    /\ DOMAIN DATASET_DICT = {Str("CIFAR10"), Str("DsA"), Str("k")}
    /\ DATASET_DICT[Str("k")] = Obj(2, "DsA")
    /\ DATASET_DICT[Str("DsA")] = Obj(1, "DsA")
    /\ DATASET_DICT[Str("CIFAR10")] = Obj(3, "CIFAR10")

\* C2: get_forward_proc_func(name) returns the function stored under name when
\* name is registered, the function stored under 'forward_batch_only' when name
\* is None and that key is registered, raises ValueError for a non-None name
\* that is not registered, and never changes the registry.
C2_GetForwardProcFunc ==
    [][lastCall'.op = "get_forward_proc_func" =>
        LET name == lastCall'.args[1]
            default == Str("forward_batch_only")
        IN  /\ PROC_FUNC_DICT' = PROC_FUNC_DICT
            /\ (name # None /\ name \in DOMAIN PROC_FUNC_DICT) =>
                   (lastCall'.exc = NoExc /\ lastCall'.ret = PROC_FUNC_DICT[name])
            /\ (name = None /\ default \in DOMAIN PROC_FUNC_DICT) =>
                   (lastCall'.exc = NoExc /\ lastCall'.ret = PROC_FUNC_DICT[default])
            /\ (name # None /\ name \notin DOMAIN PROC_FUNC_DICT) =>
                   (lastCall'.exc = "ValueError" /\ lastCall'.ret = None)]_vars

\* an unregistered name was looked up while the default function was registered
C2_Witness ==
    /\ lastCall.op = "get_forward_proc_func"
    /\ lastCall.args = <<Str("missing")>>
    /\ lastCall.exc = "ValueError"
    /\ Str("forward_batch_only") \in DOMAIN PROC_FUNC_DICT
    /\ Str("custom") \in DOMAIN PROC_FUNC_DICT

-----------------------------------------------------------------------------
(* properties of the CRD wrapper *)

Label(i) == org_dataset.targets[i + 1]

Indices == 0..(OrgLen(org_dataset) - 1)

Distinct(s) == \A i, j \in DOMAIN s : i # j => s[i] # s[j]

CRDCalled == lastCall.op = "CRDDatasetWrapper.__getitem__"

CRDReturned == CRDCalled /\ lastCall.exc = NoExc

\* the supplementary dict the last call returned
SuppDict == heap[lastCall.ret[3].id]

\* the negatives kept for the class of the sample the last call asked for
CalledNegatives == crd.cls_negatives[Label(lastCall.args[1]) + 1]

\* what C3 says a call returns
CRDResultAsClaimed ==
    LET index == lastCall.args[1]
        item == OrgGetItem(org_dataset, index)
    IN  /\ lastCall.exc = NoExc
        /\ lastCall.ret[1] = item.sample
        /\ lastCall.ret[2] = item.target
        /\ DOMAIN SuppDict = {"pos_idx", "contrast_idx"}
        /\ SuppDict["pos_idx"] = index
        /\ Len(SuppDict["contrast_idx"]) = crd.num_negative_samples + 1
        /\ SuppDict["contrast_idx"][1] \in Range(crd.cls_positives[item.target + 1])
        /\ \A i \in 2..(crd.num_negative_samples + 1) :
               SuppDict["contrast_idx"][i] \in Range(CalledNegatives)

\* C3 as stated: in mode 'exact' or 'relax' every call with a valid index returns
\* the sample, the target and a dict with pos_idx = index and a contrast_idx of
\* num_negative_samples + 1 entries, the positive first.
C3_AsStated ==
    (CRDCalled /\ crd.mode \in {"exact", "relax"}) => CRDResultAsClaimed

\* C3 amended: the same, provided no negative is asked for or the class of the
\* requested sample has kept at least one negative.
C3_GetItem ==
    (/\ CRDCalled
     /\ crd.mode \in {"exact", "relax"}
     /\ (crd.num_negative_samples = 0 \/ Len(CalledNegatives) > 0))
        => CRDResultAsClaimed

\* a 'relax' call returned a positive other than the index, then two negatives
C3_Witness ==
    /\ CRDReturned
    /\ crd.mode = "relax"
    /\ crd.num_negative_samples = 2
    /\ SuppDict["pos_idx"] = 0
    /\ Len(SuppDict["contrast_idx"]) = 3
    /\ SuppDict["contrast_idx"][1] = 2

\* C4: in mode 'exact' the first entry of contrast_idx is the requested index;
\* in mode 'relax' it is an index of the dataset whose label is the requested
\* sample's target; with any other mode the wrapper is constructed, and every
\* call with a valid index raises NotImplementedError.
C4_Mode ==
    /\ (CRDReturned /\ crd.mode = "exact") =>
           SuppDict["contrast_idx"][1] = lastCall.args[1]
    /\ (CRDReturned /\ crd.mode = "relax") =>
           /\ SuppDict["contrast_idx"][1] \in Indices
           /\ Label(SuppDict["contrast_idx"][1]) = lastCall.ret[2]
    /\ (lastCall.op = "CRDDatasetWrapper" /\ lastCall.args[2] \notin {"exact", "relax"}) =>
           (lastCall.exc = NoExc /\ crd # None /\ crd.mode = lastCall.args[2])
    /\ (CRDCalled /\ crd.mode \notin {"exact", "relax"}) =>
           lastCall.exc = "NotImplementedError"
    /\ CRDReturned => crd.mode \in {"exact", "relax"}

\* a 'relax' call for index 0 returned another sample of the same class first
C4_Witness ==
    /\ CRDReturned
    /\ crd.mode = "relax"
    /\ lastCall.args[1] = 0
    /\ SuppDict["contrast_idx"][1] = 1
    /\ Label(1) = Label(0)

\* the number of samples whose label is not c
NumNotLabelled(c) == Cardinality({i \in Indices : Label(i) # c})

\* C5: with 0 < ratio < 1 every class c keeps int(ratio * (number of samples
\* whose label is not c)) negatives, all distinct and none labelled c; with any
\* other ratio every class keeps all of its negatives.
C5_Ratio ==
    crd # None =>
        \A c \in 0..(org_dataset.classes - 1) :
            LET kept == crd.cls_negatives[c + 1]
            IN  /\ Distinct(kept)
                /\ \A i \in 1..Len(kept) : kept[i] \in Indices /\ Label(kept[i]) # c
                /\ Len(kept) = IF RatioInUnitInterval(crd.ratio)
                               THEN IntTimes(NumNotLabelled(c), crd.ratio)
                               ELSE NumNotLabelled(c)

\* C8: constructed with a ratio outside (0, 1), cls_positives[c] lists in
\* ascending order exactly the indices labelled c, and cls_negatives[c] holds
\* exactly the indices not labelled c, each once.
C8_Partition ==
    (crd # None /\ ~RatioInUnitInterval(crd.ratio)) =>
        /\ Len(crd.cls_positives) = org_dataset.classes
        /\ Len(crd.cls_negatives) = org_dataset.classes
        /\ \A c \in 0..(org_dataset.classes - 1) :
               LET pos == crd.cls_positives[c + 1]
                   neg == crd.cls_negatives[c + 1]
               IN  /\ Range(pos) = {i \in Indices : Label(i) = c}
                   /\ \A i, j \in 1..Len(pos) : i < j => pos[i] < pos[j]
                   /\ Range(neg) = {i \in Indices : Label(i) # c}
                   /\ Distinct(neg)
                   /\ Range(pos) \cap Range(neg) = {}
                   /\ Range(pos) \cup Range(neg) = Indices
        /\ \A i \in Indices :
               Cardinality({c \in 1..org_dataset.classes :
                               i \in Range(crd.cls_positives[c])}) = 1

\* three samples of two interleaved classes, all negatives kept
C8_Witness ==
    /\ crd # None
    /\ crd.ratio = <<1, 1>>
    /\ org_dataset.targets = <<0, 1, 0>>
    /\ crd.cls_positives = <<(<<0, 2>>), <<1>>>>
    /\ crd.cls_negatives = <<<<1>>, (<<0, 2>>)>>

\* C9: every negative a call returns is an element of cls_negatives[target] and
\* so is labelled otherwise than the target; the negatives are pairwise distinct
\* when num_negative_samples <= len(cls_negatives[target]); when more are asked
\* for and cls_negatives[target] is not empty, the call still returns
\* num_negative_samples negatives.
C9_Negatives ==
    /\ CRDReturned =>
           LET contrast_idx == SuppDict["contrast_idx"]
               neg_idx == SubSeq(contrast_idx, 2, Len(contrast_idx))
           IN  /\ \A i \in 1..Len(neg_idx) :
                      /\ neg_idx[i] \in Range(CalledNegatives)
                      /\ neg_idx[i] \in Indices
                      /\ Label(neg_idx[i]) # lastCall.ret[2]
               /\ crd.num_negative_samples <= Len(CalledNegatives) => Distinct(neg_idx)
    /\ (/\ CRDCalled
        /\ crd.mode \in {"exact", "relax"}
        /\ crd.num_negative_samples > Len(CalledNegatives)
        /\ Len(CalledNegatives) > 0) =>
           /\ lastCall.exc = NoExc
           /\ Len(SuppDict["contrast_idx"]) = crd.num_negative_samples + 1

\* two negatives were asked for where one is kept: it is returned twice
C9_Witness ==
    /\ CRDReturned
    /\ crd.num_negative_samples = 2
    /\ Len(CalledNegatives) = 1
    /\ SuppDict["contrast_idx"] = <<0, 2, 2>>

-----------------------------------------------------------------------------
(* properties of the base and cacheable wrappers *)

\* the path C6 names for an index, from the wrapper's fields
ClaimedCachePath(index) ==
    PathJoin(cache.cache_dir_path,
             (IF cache.idx2subath_func = "str" THEN StrOfInt(index)
              ELSE default_idx2subpath(index)) \o cache.ext)

\* C6: CacheableDataset keeps cache_dir_path, idx2subpath_func (str when None)
\* and ext ('.pt' when left out); every __getitem__ returns the dataset's sample
\* and target and a dict whose 'cache_file_path' is cache_dir_path joined with
\* idx2subpath_func(index) + ext, and which holds 'cached_data' (the file's
\* content) exactly when a file exists at that path at the time of the call.
C6_CacheableGetItem ==
    [][/\ lastCall'.op = "CacheableDataset" =>
              /\ cache'.cache_dir_path = lastCall'.args[1]
              /\ cache'.idx2subath_func =
                     IF lastCall'.args[2] = None THEN "str" ELSE lastCall'.args[2].name
              /\ cache'.ext =
                     IF lastCall'.args[3] = Omitted THEN <<".", "p", "t">>
                     ELSE lastCall'.args[3]
       /\ lastCall'.op = "CacheableDataset.__getitem__" =>
              LET index == lastCall'.args[1]
                  item == OrgGetItem(org_dataset, index)
                  path == ClaimedCachePath(index)
                  supp == heap'[lastCall'.ret[3].id]
              IN  /\ files' = files /\ cache' = cache
                  /\ lastCall'.exc = NoExc
                  /\ lastCall'.ret[1] = item.sample
                  /\ lastCall'.ret[2] = item.target
                  /\ "cache_file_path" \in DOMAIN supp
                  /\ supp["cache_file_path"] = path
                  /\ "cached_data" \in DOMAIN supp <=> path \in DOMAIN files
                  /\ "cached_data" \in DOMAIN supp => supp["cached_data"] = files[path]
                  /\ DOMAIN supp \subseteq {"cache_file_path", "cached_data"}]_vars

\* sample 10 was asked for with the defaults, and its cache file c/10.pt exists
C6_Witness ==
    /\ lastCall.op = "CacheableDataset.__getitem__"
    /\ lastCall.args[1] = 10
    /\ cache.cache_dir_path = <<"c">>
    /\ cache.idx2subath_func = "str"
    /\ heap[lastCall.ret[3].id] =
           [cache_file_path |-> <<"c", "/", "1", "0", ".", "p", "t">>,
            cached_data |-> CachedOutput(10)]

IsBaseGetItem(call) ==
    call.op \in {"BaseDatasetWrapper.__getitem__", "CacheableDataset.__getitem__"}

\* C7: len(wrapper) is len(org_dataset); BaseDatasetWrapper.__getitem__ returns
\* the dataset's sample and target and a dict that is new (none of the dicts
\* the caller holds) and empty, so a call leaves the dicts of earlier calls as
\* they were, and 'cached_data' in a dict is always the content of that dict's
\* own cache file, never an entry left by another call.
C7_Composition ==
    /\ [][/\ lastCall'.op = "__len__" => lastCall'.ret = Len(org_dataset.samples)
          /\ IsBaseGetItem(lastCall') =>
                 LET index == lastCall'.args[1]
                     keep == lastCall'.args[2]
                     item == OrgGetItem(org_dataset, index)
                     ref == lastCall'.ret[3]
                 IN  /\ lastCall'.ret[1] = item.sample
                     /\ lastCall'.ret[2] = item.target
                     /\ ref.id \in DOMAIN heap'
                     /\ keep => /\ ref.id \notin DOMAIN heap
                                /\ \A i \in DOMAIN heap :
                                       i \in DOMAIN heap' /\ heap'[i] = heap[i]
                     /\ lastCall'.op = "BaseDatasetWrapper.__getitem__" =>
                            heap'[ref.id] = << >>]_vars
    /\ [](\A i \in DOMAIN heap :
              "cached_data" \in DOMAIN heap[i] =>
                  \E index \in ProbeIndices :
                      /\ heap[i]["cache_file_path"] = ClaimedCachePath(index)
                      /\ heap[i]["cached_data"] = CachedOutput(index))

\* the caller holds two results: the first call found a cache file, the later
\* one, for another sample, found none
C7_Witness ==
    /\ lastCall.op = "CacheableDataset.__getitem__"
    /\ lastCall.args = <<1, TRUE>>
    /\ Len(heap) = 2
    /\ DOMAIN heap[1] = {"cache_file_path", "cached_data"}
    /\ DOMAIN heap[2] = {"cache_file_path"}
    /\ heap[1]["cached_data"] = CachedOutput(0)

-----------------------------------------------------------------------------
(* properties of the SSKD wrapper *)

\* C10: constructing SSKDDatasetWrapper(org_dataset) gives the wrapper the
\* transform org_dataset had and sets org_dataset.transform to None, leaving
\* earlier wrappers as they were: the dataset then yields untransformed
\* samples, a later wrapper of the same dataset has transform None, and a
\* wrapper with a transform returns the transformed 0, 90, 180 and 270 degree
\* rotations of the stored sample, in that order.
C10_TransformMoves ==
    /\ [][(lastCall'.op = "SSKDDatasetWrapper" /\ Len(sskd') # Len(sskd)) =>
              /\ Len(sskd') = Len(sskd) + 1
              /\ sskd'[Len(sskd')].transform = org_dataset.transform
              /\ org_dataset'.transform = None
              /\ org_dataset'.samples = org_dataset.samples
              /\ \A w \in 1..Len(sskd) : sskd'[w] = sskd[w]]_vars
    /\ [](Len(sskd) >= 1 =>
              /\ org_dataset.transform = None
              /\ \A w \in 2..Len(sskd) : sskd[w].transform = None)
    /\ []((lastCall.op = "org_dataset.__getitem__" /\ Len(sskd) >= 1) =>
              lastCall.ret[1] = [t |-> "image", id |-> lastCall.args[1], rot |-> 0])
    /\ []((lastCall.op = "SSKDDatasetWrapper.__getitem__" /\ lastCall.exc = NoExc) =>
              LET f == sskd[lastCall.args[1]].transform
                  i == lastCall.args[2]
              IN  /\ f # None
                  /\ lastCall.ret[1].of =
                         <<[t |-> "transformed", by |-> f,
                            of |-> [t |-> "image", id |-> i, rot |-> 0]],
                           [t |-> "transformed", by |-> f,
                            of |-> [t |-> "image", id |-> i, rot |-> 90]],
                           [t |-> "transformed", by |-> f,
                            of |-> [t |-> "image", id |-> i, rot |-> 180]],
                           [t |-> "transformed", by |-> f,
                            of |-> [t |-> "image", id |-> i, rot |-> 270]]>>
                  /\ lastCall.ret[2] = org_dataset.targets[i + 1])

\* the dataset was wrapped twice; the first wrapper still transforms
C10_Witness ==
    /\ Len(sskd) = 2
    /\ sskd[1].transform = Obj(1, "ToTensor")
    /\ sskd[2].transform = None
    /\ org_dataset.transform = None
    /\ lastCall.op = "SSKDDatasetWrapper.__getitem__"
    /\ lastCall.args = <<1, 1>>
    /\ lastCall.exc = NoExc

====
